---- MODULE Spec2Model ----
(***************************************************************************)
(* MockKYCEngine (src/utils/mockEngine.ts): the session registry, the      *)
(* timer-driven check processing, score aggregation, decision and          *)
(* reasoning.  Session objects live in a heap and are referred to by       *)
(* index, because the timer callbacks of startProcessing close over the    *)
(* session OBJECT while completeSession looks the session up by ID.        *)
(*                                                                         *)
(* Numbers: Math.random() is drawn in tenths (r \in 0..9 stands for r/10); *)
(* a pattern's volatility is held in percent (0.1 is 10); targetScore is   *)
(* held in tenths of a point.  Every score the engine stores is an         *)
(* integer, as in the code (Math.round).                                   *)
(***************************************************************************)
EXTENDS Integers, Sequences, FiniteSets, TLC

VARIABLES
    now,        \* Date.now(), in ms since the engine was constructed
    heap,       \* the KYCSession objects ever constructed, by allocation index
    sessions,   \* MockKYCEngine.sessions : Map<string, KYCSession> (id -> heap index)
    timers,     \* MockKYCEngine.timers   : Map<string, Timeout[]> (id -> timer handles)
    batches,    \* one entry per startProcessing call: what its closures captured
    pending,    \* per startProcessing call, which of its timers are still to fire
    updates,    \* per startProcessing call, how often its onUpdate was invoked
    calls,      \* the caller's operations so far, in order (history)
    reports,    \* what exportReport and downloadReport produced so far, in order
    invocations, \* the callCheck invocations made so far and how far each has got
    dashboard,  \* the Dashboard page: whether it is mounted, and its React state
    recorder    \* the recordAndUpload call: its phase, progress timer and result

vars ==
    <<now, heap, sessions, timers, batches, pending, updates, calls, reports,
      invocations, dashboard, recorder>>

-----------------------------------------------------------------------------
(* Bounds of the environment *)

MaxCreates == 2         \* createSession calls in one behaviour
MaxStarts == 2          \* startProcessing calls in one behaviour
MaxStops == 1           \* stopSession calls in one behaviour
CallerPeriod == 12500   \* the caller acts at multiples of this many ms ...
CallerSlots == 1        \* ... up to this multiple

SessionIds == {"s1"}
SessionTypes == {"upload", "live"}

-----------------------------------------------------------------------------
(* Static data *)

DEFAULT_CHECKS ==
    << [id |-> "active-liveness", name |-> "Active Liveness",
        description |-> "Challenge-response verification to detect live person",
        maxScore |-> 100, status |-> "pending"],
       [id |-> "passive-forensics", name |-> "Passive Forensics",
        description |-> "AI-powered deepfake and manipulation detection",
        maxScore |-> 100, status |-> "pending"],
       [id |-> "head-pose", name |-> "Head Pose (3D)",
        description |-> "3D head tracking and pose estimation analysis",
        maxScore |-> 100, status |-> "pending"],
       [id |-> "micro-dynamics", name |-> "Micro-Dynamics",
        description |-> "Natural facial micro-expressions and movements",
        maxScore |-> 100, status |-> "pending"],
       [id |-> "lip-audio-sync", name |-> "Lip-Audio Sync",
        description |-> "Correlation between lip movement and speech",
        maxScore |-> 100, status |-> "pending"],
       [id |-> "temporal-integrity", name |-> "Temporal Integrity",
        description |-> "Consistency analysis across video timeline",
        maxScore |-> 100, status |-> "pending"],
       [id |-> "face-match", name |-> "Face Match vs ID",
        description |-> "Identity verification against provided documents",
        maxScore |-> 100, status |-> "pending"] >>

CheckIds == { DEFAULT_CHECKS[i].id : i \in 1..Len(DEFAULT_CHECKS) }

Pattern(lo, hi, vol) == [min |-> lo, max |-> hi, volatility |-> vol]

\* scorePatterns given as a sequence in DEFAULT_CHECKS order
PatternsOf(ps) ==
    [c \in CheckIds |->
        ps[CHOOSE i \in 1..Len(DEFAULT_CHECKS) : DEFAULT_CHECKS[i].id = c]]

GenuinePass ==
    [id |-> "genuine-pass", name |-> "Genuine Pass", targetDecision |-> "PASS",
     scorePatterns |-> PatternsOf(<< Pattern(85, 95, 10), Pattern(88, 96, 8),
         Pattern(82, 92, 12), Pattern(79, 89, 15), Pattern(86, 94, 10),
         Pattern(84, 93, 9), Pattern(91, 97, 6) >>),
     events |-> << [type |-> "info", message |-> <<"Face detected in frame">>],
         [type |-> "success", message |-> <<"Liveness challenge completed successfully">>],
         [type |-> "info", message |-> <<"Audio quality: Excellent">>],
         [type |-> "success", message |-> <<"Face matching completed with high confidence">>] >>]

DeepfakeSuspicion ==
    [id |-> "deepfake-suspicion", name |-> "Deepfake Suspicion", targetDecision |-> "FAIL",
     scorePatterns |-> PatternsOf(<< Pattern(45, 65, 20), Pattern(25, 45, 25),
         Pattern(35, 55, 18), Pattern(30, 50, 22), Pattern(28, 48, 25),
         Pattern(32, 52, 20), Pattern(75, 85, 10) >>),
     events |-> << [type |-> "warning", message |-> <<"Unusual micro-expression patterns detected">>],
         [type |-> "error", message |-> <<"Temporal inconsistencies in facial features">>],
         [type |-> "warning", message |-> <<"Audio-visual synchronization anomalies">>],
         [type |-> "error", message |-> <<"Deep learning artifacts detected in video stream">>] >>]

ReplayDetected ==
    [id |-> "replay-detected", name |-> "Replay Attack", targetDecision |-> "FAIL",
     scorePatterns |-> PatternsOf(<< Pattern(15, 35, 30), Pattern(65, 75, 10),
         Pattern(70, 85, 8), Pattern(20, 40, 25), Pattern(75, 90, 12),
         Pattern(45, 65, 15), Pattern(85, 95, 8) >>),
     events |-> << [type |-> "error", message |-> <<"No response to liveness challenges">>],
         [type |-> "warning", message |-> <<"Static background detected">>],
         [type |-> "error", message |-> <<"Lack of natural micro-movements">>],
         [type |-> "error", message |-> <<"Video replay patterns identified">>] >>]

NoisyAudio ==
    [id |-> "noisy-audio", name |-> "Noisy Environment", targetDecision |-> "RETRY",
     scorePatterns |-> PatternsOf(<< Pattern(75, 85, 12), Pattern(80, 90, 10),
         Pattern(78, 88, 11), Pattern(72, 82, 14), Pattern(35, 55, 30),
         Pattern(76, 86, 12), Pattern(85, 92, 8) >>),
     events |-> << [type |-> "info", message |-> <<"Face detection: Normal">>],
         [type |-> "warning", message |-> <<"Background noise detected">>],
         [type |-> "error", message |-> <<"Audio quality below threshold">>],
         [type |-> "warning", message |-> <<"Lip-sync analysis inconclusive due to audio issues">>] >>]

FaceMismatch ==
    [id |-> "face-mismatch", name |-> "Face Mismatch", targetDecision |-> "FAIL",
     scorePatterns |-> PatternsOf(<< Pattern(82, 92, 10), Pattern(85, 93, 9),
         Pattern(80, 90, 11), Pattern(78, 88, 13), Pattern(83, 91, 10),
         Pattern(81, 89, 12), Pattern(25, 45, 20) >>),
     events |-> << [type |-> "info", message |-> <<"Liveness verification: Passed">>],
         [type |-> "info", message |-> <<"Video quality: Good">>],
         [type |-> "error", message |-> <<"Face matching score below threshold">>],
         [type |-> "error", message |-> <<"Identity verification failed">>] >>]

DEMO_SCENARIOS ==
    << GenuinePass, DeepfakeSuspicion, ReplayDetected, NoisyAudio, FaceMismatch >>

-----------------------------------------------------------------------------
(* Arithmetic of the engine *)

Min2(a, b) == IF a <= b THEN a ELSE b
Max2(a, b) == IF a >= b THEN a ELSE b

\* Math.round(num / den) for den > 0: the nearest integer, halves towards +infinity
MathRound(num, den) == (2 * num + den) \div (2 * den)

steps == 20

\* Math.random() * (pattern.max - pattern.min) + pattern.min, in tenths
TargetScore(pattern, r) == r * (pattern.max - pattern.min) + 10 * pattern.min

\* 300 + Math.random() * 500
StepDelay(r) == 300 + r * 50

\* StepScore without the clamp to 0..100
StepScoreUnclamped(step, targetScore, r, pattern) ==
    LET den == steps * 10000
        raw == step * targetScore * 1000
               + (steps - step) * (r - 5) * pattern.volatility * targetScore
    IN  MathRound(raw, den)

\* The score a check-step callback stores (Math.round of the clamped value):
\* progress = step / steps; volatility = (random - 0.5) * pattern.volatility * targetScore;
\* currentScore = min(100, max(0, progress * targetScore + (1 - progress) * volatility))
\* The value is the fraction raw / den.
StepScore(step, targetScore, r, pattern) ==
    LET den == steps * 10000
        raw == step * targetScore * 1000
               + (steps - step) * (r - 5) * pattern.volatility * targetScore
        clamped == Min2(100 * den, Max2(0, raw))
    IN  MathRound(clamped, den)

-----------------------------------------------------------------------------
(* Text: a string built from pieces is the sequence of its pieces *)

RECURSIVE Join(_, _)
\* names.join(sep)
Join(names, sep) ==
    IF Len(names) = 0 THEN << >>
    ELSE IF Len(names) = 1 THEN << names[1] >>
    ELSE << names[1], sep >> \o Join(Tail(names), sep)

\* When the check reached its last sample (0 if it has none)
ArrivedAt(check) ==
    IF Len(check.timeline) = 0 THEN 0
    ELSE check.timeline[Len(check.timeline)].timestamp

RECURSIVE ByArrival(_)
\* The checks in the order in which they received their last sample
ByArrival(checks) ==
    IF Len(checks) = 0 THEN << >>
    ELSE LET first == CHOOSE i \in 1..Len(checks) :
                 \A j \in 1..Len(checks) :
                     \/ ArrivedAt(checks[i]) < ArrivedAt(checks[j])
                     \/ ArrivedAt(checks[i]) = ArrivedAt(checks[j]) /\ i <= j
             rest == [k \in 1..(Len(checks) - 1) |->
                         IF k < first THEN checks[k] ELSE checks[k + 1]]
         IN  << checks[first] >> \o ByArrival(rest)

\* Names over the checks in arrival order instead of the array's order
NamesByArrival(checks) ==
    [i \in 1..Len(checks) |-> ByArrival(checks)[i].name]

\* checks.map(c => c.name)
Names(checks) == [i \in 1..Len(checks) |-> checks[i].name]

-----------------------------------------------------------------------------
(* createSession *)

\* InitialChecks with the last configured check left out (a map over a slice)
InitialChecksShort ==
    [i \in 1..(Len(DEFAULT_CHECKS) - 1) |->
        [id |-> DEFAULT_CHECKS[i].id, name |-> DEFAULT_CHECKS[i].name,
         description |-> DEFAULT_CHECKS[i].description,
         maxScore |-> DEFAULT_CHECKS[i].maxScore,
         status |-> DEFAULT_CHECKS[i].status,
         score |-> 0, timeline |-> << >>]]

\* DEFAULT_CHECKS.map(check => ({...check, score: 0, timeline: []}))
InitialChecks ==
    [i \in 1..Len(DEFAULT_CHECKS) |->
        [id |-> DEFAULT_CHECKS[i].id, name |-> DEFAULT_CHECKS[i].name,
         description |-> DEFAULT_CHECKS[i].description,
         maxScore |-> DEFAULT_CHECKS[i].maxScore,
         status |-> DEFAULT_CHECKS[i].status,
         score |-> 0, timeline |-> << >>]]

\* The session object createSession constructs; endTime is absent ({}) or {t}
\* NewSession with the decision field preset to the scenario's target
NewSessionPreset(sessionId, type, scenario) ==
    [id |-> sessionId, type |-> type, status |-> "initializing",
     scenario |-> scenario, checks |-> InitialChecks,
     events |-> << [timestamp |-> now, type |-> "info",
                    message |-> << IF type = "live" THEN "Live" ELSE "Upload",
                                   " KYC session initialized" >>] >>,
     finalScore |-> 0, decision |-> scenario.targetDecision, reasoning |-> << >>,
     startTime |-> now, endTime |-> {}]

NewSession(sessionId, type, scenario) ==
    [id |-> sessionId, type |-> type, status |-> "initializing",
     scenario |-> scenario, checks |-> InitialChecks,
     events |-> << [timestamp |-> now, type |-> "info",
                    message |-> << IF type = "live" THEN "Live" ELSE "Upload",
                                   " KYC session initialized" >>] >>,
     finalScore |-> 0, decision |-> "PASS", reasoning |-> << >>,
     startTime |-> now, endTime |-> {}]

\* Map.set(key, value)
MapSet(map, key, value) ==
    [k \in DOMAIN map \cup {key} |-> IF k = key THEN value ELSE map[k]]

\* Map.delete(key)
MapDelete(map, key) == [k \in DOMAIN map \ {key} |-> map[k]]

CreateSession(sessionId, type, scenario) ==
    /\ heap' = Append(heap, NewSession(sessionId, type, scenario))
    /\ sessions' = MapSet(sessions, sessionId, Len(heap) + 1)
    /\ calls' = Append(calls, [op |-> "createSession", id |-> sessionId,
                               session |-> Len(heap) + 1, thrown |-> FALSE])
    /\ UNCHANGED <<now, timers, batches, pending, updates, reports, invocations, recorder>>

-----------------------------------------------------------------------------
(* completeSession and generateReasoning *)

\* generateReasoning giving the PASS sentences whatever the decision is
generateReasoningAlwaysPass(session) ==
    << << "All security checks passed with high confidence scores" >>,
       << "Live person detected with natural biometric patterns" >>,
       << "No signs of manipulation or fraud detected" >> >>

generateReasoning(session) ==
    LET lowScore(c) == c.score < 60
        failed(c) == c.score < 50
        lowScoreChecks == SelectSeq(session.checks, lowScore)
        failedChecks == SelectSeq(session.checks, failed)
    IN  CASE session.decision = "PASS" ->
              << << "All security checks passed with high confidence scores" >>,
                 << "Live person detected with natural biometric patterns" >>,
                 << "No signs of manipulation or fraud detected" >> >>
          [] session.decision = "RETRY" ->
              (IF Len(lowScoreChecks) > 0
               THEN << << "Poor quality detected in: " >>
                       \o Join(Names(lowScoreChecks), ", ") >>
               ELSE << >>)
              \o << << "Please retry with better lighting and audio conditions" >>,
                    << "Ensure stable internet connection and clear video quality" >> >>
          [] session.decision = "FAIL" ->
              (IF Len(failedChecks) > 0
               THEN << << "Failed security checks: " >>
                       \o Join(Names(failedChecks), ", ") >>
               ELSE << >>)
              \o << << "Potential fraud or manipulation detected" >>,
                    << "Identity verification requirements not met" >> >>
          [] OTHER -> << >>

RECURSIVE SumScores(_)
\* session.checks.reduce((sum, check) => sum + check.score, 0)
SumScores(checks) ==
    IF Len(checks) = 0 THEN 0 ELSE checks[1].score + SumScores(Tail(checks))

\* AggregateScore averaging over the checks that scored, not over all of them
AggregateScoreOfScored(checks) ==
    LET scoring(c) == c.score > 0
        n == Len(SelectSeq(checks, scoring))
    IN  IF n = 0 THEN 0 ELSE MathRound(SumScores(checks), n)

\* Math.round(totalScore / session.checks.length)
AggregateScore(checks) == MathRound(SumScores(checks), Len(checks))

\* Decide taking the verdict from the final score
DecideByScore(session) == IF session.finalScore >= 60 THEN "PASS" ELSE "FAIL"

\* The decision completeSession stores
Decide(session) == session.scenario.targetDecision

\* The fields completeSession writes, in its order, at time t
Completed(session, t) ==
    LET scored == [session EXCEPT !.finalScore = AggregateScore(session.checks)]
        decided == [scored EXCEPT !.decision = Decide(scored)]
        reasoned == [decided EXCEPT !.reasoning = generateReasoning(decided)]
    IN  [reasoned EXCEPT
           !.status = "completed",
           !.endTime = {t},
           !.events = Append(@,
               [timestamp |-> t,
                type |-> IF reasoned.decision = "PASS" THEN "success"
                         ELSE IF reasoned.decision = "RETRY" THEN "warning"
                         ELSE "error",
                message |-> << "KYC verification completed: ", reasoned.decision >>])]

\* completeSession(sessionId) applied to heap h with the registry as it is
\* completeSession acting on the session created last, whatever the id
completeSessionLatest(h, sessionId, t) ==
    IF sessionId \notin DOMAIN sessions THEN h
    ELSE [h EXCEPT ![Len(h)] = Completed(@, t)]

completeSession(h, sessionId, t) ==
    IF sessionId \notin DOMAIN sessions THEN h
    ELSE [h EXCEPT ![sessions[sessionId]] = Completed(@, t)]

-----------------------------------------------------------------------------
(* startProcessing, its timer callbacks, stopSession                       *)
(*                                                                         *)
(* A timer handle is [batch, kind, index, step]: kind "event" with index   *)
(* the scenario event's index (from 0), or kind "step" with index the      *)
(* checkIndex (from 0) and step in 0..steps.  The delays of one call's     *)
(* event timers increase with the index and those of one check's step      *)
(* timers increase with the step (stepDelay >= 300), so the timers of each *)
(* such chain fire in order: pending[batch] holds, per chain, the first    *)
(* timer that has not fired, and whether the batch's timers were cleared.  *)

\* Patterned keeping the first such check only (the checks dispatched one at a
\* time)
PatternedFirstOnly(session) ==
    LET all == { i \in 1..Len(session.checks) :
                   session.checks[i].id \in DOMAIN session.scenario.scorePatterns }
    IN  { i \in all : \A j \in all : i <= j }

\* The positions (1-based) of the checks the scenario has a score pattern for
Patterned(session) ==
    { i \in 1..Len(session.checks) :
        session.checks[i].id \in DOMAIN session.scenario.scorePatterns }

PatternAt(session, i) == session.scenario.scorePatterns[session.checks[i].id]

EventTimer(b, k) == [batch |-> b, kind |-> "event", index |-> k, step |-> 0]
StepTimer(b, i, st) == [batch |-> b, kind |-> "step", index |-> i - 1, step |-> st]

\* Delay with the scenario events twenty seconds apart
DelaySlowEvents(t) ==
    IF t.kind = "event" THEN 1000 + t.index * 20000
    ELSE t.index * 1000 + t.step * batches[t.batch].stepDelay[t.index + 1]

\* The delay setTimeout is given
Delay(t) ==
    IF t.kind = "event" THEN 1000 + t.index * 2000
    ELSE t.index * 1000 + t.step * batches[t.batch].stepDelay[t.index + 1]

\* When the timer is due
Due(t) == batches[t.batch].startedAt + Delay(t)

\* The timers of batch b that are scheduled and have neither fired nor been cleared
PendingOf(b) ==
    IF pending[b].cleared THEN {}
    ELSE { EventTimer(b, k) :
             k \in pending[b].event..(Len(heap[batches[b].session].scenario.events) - 1) }
         \cup UNION { { StepTimer(b, i, st) : st \in pending[b].step[i]..steps } :
                      i \in DOMAIN pending[b].step }

Pending == UNION { PendingOf(b) : b \in 1..Len(batches) }

\* Of each chain of batch b, the first pending timer
HeadsOf(b) ==
    IF pending[b].cleared THEN {}
    ELSE (IF pending[b].event < Len(heap[batches[b].session].scenario.events)
          THEN { EventTimer(b, pending[b].event) } ELSE {})
         \cup { StepTimer(b, i, pending[b].step[i]) :
                  i \in { j \in DOMAIN pending[b].step : pending[b].step[j] <= steps } }

Heads == UNION { HeadsOf(b) : b \in 1..Len(batches) }

\* The value this.timers.set(sessionId, timers) stores: the array of the timers
\* this call scheduled, named by the call's batch
StoredTimers(batch) == {batch}

\* rnd: the values Math.random() returns to this call and to its callbacks, per
\* check position: rnd.target, rnd.delay, rnd.vol
StartProcessing(sessionId, rnd) ==
    /\ calls' = Append(calls, [op |-> "startProcessing", id |-> sessionId,
                               session |-> IF sessionId \in DOMAIN sessions
                                           THEN sessions[sessionId] ELSE 0,
                               thrown |-> FALSE])
    /\ IF sessionId \notin DOMAIN sessions
       THEN UNCHANGED <<now, heap, sessions, timers, batches, pending, updates>>
       ELSE LET s == sessions[sessionId]
                session == heap[s]
                b == Len(batches) + 1
            IN  /\ heap' = [heap EXCEPT
                     ![s].status = "processing",
                     ![s].checks = [i \in 1..Len(session.checks) |->
                         IF i \in Patterned(session)
                         THEN [session.checks[i] EXCEPT !.status = "processing"]
                         ELSE session.checks[i]]]
                /\ batches' = Append(batches,
                     [sessionId |-> sessionId, session |-> s, startedAt |-> now,
                      targetScore |-> [i \in Patterned(session) |->
                          TargetScore(PatternAt(session, i), rnd.target[i])],
                      stepDelay |-> [i \in Patterned(session) |->
                          StepDelay(rnd.delay[i])],
                      random |-> rnd.vol])
                /\ pending' = Append(pending,
                     [event |-> 0, step |-> [i \in Patterned(session) |-> 0],
                      cleared |-> FALSE])
                /\ timers' = MapSet(timers, sessionId, StoredTimers(b))
                /\ updates' = Append(updates, 0)
                /\ UNCHANGED <<now, sessions>>
    /\ UNCHANGED <<reports, invocations, recorder>>

\* EventCallback putting the event at the head of the log (unshift for push)
EventCallbackFirst(h, t, at) ==
    LET s == batches[t.batch].session
        event == h[s].scenario.events[t.index + 1]
    IN  [h EXCEPT ![s].events =
            << [timestamp |-> at, type |-> event.type, message |-> event.message] >>
            \o @]

\* The scenario-event callback of timer t, run at time at
EventCallback(h, t, at) ==
    LET s == batches[t.batch].session
        event == h[s].scenario.events[t.index + 1]
    IN  [h EXCEPT ![s].events = Append(@,
            [timestamp |-> at, type |-> event.type, message |-> event.message])]

\* Whether the step callback goes on to completeSession
\* AllCompleted comparing against a status no check ever has
AllCompletedMisspelt(session) ==
    \A i \in 1..Len(session.checks) : session.checks[i].status = "complete"

AllCompleted(session) ==
    \A i \in 1..Len(session.checks) : session.checks[i].status = "completed"

\* The check-step callback of timer t, run at time at
StepCallback(h, t, at) ==
    LET batch == batches[t.batch]
        s == batch.session
        i == t.index + 1
        score == StepScore(t.step, batch.targetScore[i], batch.random[i],
                           PatternAt(h[s], i))
        stepped == [h EXCEPT ![s].checks[i] =
                      [@ EXCEPT !.score = score,
                                !.timeline = Append(@, [timestamp |-> at,
                                                        score |-> score]),
                                !.status = IF t.step = steps THEN "completed"
                                           ELSE @]]
    IN  IF t.step = steps /\ AllCompleted(stepped[s])
        THEN completeSession(stepped, batch.sessionId, at)
        ELSE stepped

\* pending, once timer t has fired
Fired(t) ==
    IF t.kind = "event"
    THEN [pending EXCEPT ![t.batch].event = t.index + 1]
    ELSE [pending EXCEPT ![t.batch].step[t.index + 1] = t.step + 1]

\* Whether setTimeout was called for u before it was called for t: the calls of
\* one startProcessing come in the order events, then checks, each by step
Position(t) ==
    IF t.kind = "event" THEN t.index
    ELSE Len(heap[batches[t.batch].session].scenario.events)
         + t.index * (steps + 1) + t.step

SetBefore(u, t) ==
    \/ u.batch < t.batch
    \/ u.batch = t.batch /\ Position(u) < Position(t)

\* The timers that may fire next: those due earliest, except that of two timers
\* due at the same instant one set earlier with no greater delay goes first (the
\* timer ordering of the HTML standard); otherwise either order
Earliest ==
    LET heads == Heads
    IN  { t \in heads :
            \A u \in heads :
                /\ Due(t) <= Due(u)
                /\ ~(Due(u) = Due(t) /\ Delay(u) <= Delay(t) /\ SetBefore(u, t)) }

\* One timer fires; its callback runs to the end, onUpdate included
RunTimer(t) ==
        /\ now' = Max2(now, Due(t))
        /\ heap' = IF t.kind = "event" THEN EventCallback(heap, t, now')
                   ELSE StepCallback(heap, t, now')
        /\ pending' = Fired(t)
        /\ updates' = [updates EXCEPT ![t.batch] = @ + 1]
        /\ UNCHANGED <<sessions, timers, batches, calls, reports, invocations,
                       recorder>>

\* One timer fires while no Dashboard closure is listening
TimerFires ==
    \E t \in Earliest : RunTimer(t) /\ UNCHANGED dashboard

\* timers.forEach(timer => clearTimeout(timer)) over the stored arrays
Cleared(stored) ==
    [b \in 1..Len(pending) |->
        IF b \in stored THEN [pending[b] EXCEPT !.cleared = TRUE] ELSE pending[b]]

\* getSession(sessionId): the session object, or 0 for undefined
getSession(sessionId) ==
    IF sessionId \in DOMAIN sessions THEN sessions[sessionId] ELSE 0

StopSession(sessionId) ==
    /\ calls' = Append(calls, [op |-> "stopSession", id |-> sessionId,
                               session |-> IF sessionId \in DOMAIN sessions
                                           THEN sessions[sessionId] ELSE 0,
                               thrown |-> FALSE])
    /\ IF sessionId \in DOMAIN timers
       THEN /\ pending' = Cleared(timers[sessionId])
            /\ timers' = MapDelete(timers, sessionId)
       ELSE UNCHANGED <<pending, timers>>
    /\ UNCHANGED <<now, heap, sessions, batches, updates, reports, invocations, recorder>>

-----------------------------------------------------------------------------
(* The engine under a caller who acts at multiples of CallerPeriod *)

EmptyMap == [k \in {} |-> 0]

Init ==
    /\ now = 0
    /\ heap = << >>
    /\ sessions = EmptyMap
    /\ timers = EmptyMap
    /\ batches = << >>
    /\ pending = << >>
    /\ updates = << >>
    /\ calls = << >>
    /\ reports = << >>
    /\ invocations = << >>
    /\ dashboard = [mounted |-> FALSE, instance |-> 0, session |-> 0,
                    copy |-> FALSE, status |-> "none", isProcessing |-> FALSE,
                    selectedScenario |-> 1, owner |-> << >>]
    /\ recorder = [phase |-> "idle", duration |-> 0, clock |-> 0,
                   interval |-> FALSE, elapsed |-> 0, progress |-> << >>,
                   result |-> "none"]

CountCalls(op) == Cardinality({ i \in 1..Len(calls) : calls[i].op = op })

AtCallerSlot == now % CallerPeriod = 0 /\ now \div CallerPeriod <= CallerSlots

\* What the caller passes to createSession
SessionInputs ==
    { [type |-> "live", scenario |-> GenuinePass],
      [type |-> "upload", scenario |-> DeepfakeSuspicion] }

Uniform(r) == [i \in 1..Len(DEFAULT_CHECKS) |-> r]

\* What Math.random() returns during one startProcessing call and its callbacks
RandomProfiles ==
    { [target |-> Uniform(0), delay |-> Uniform(0), vol |-> Uniform(0)],
      [target |-> Uniform(5),
       delay |-> [i \in 1..Len(DEFAULT_CHECKS) |-> IF i <= 3 THEN 9 ELSE 0],
       vol |-> Uniform(9)] }

CallCreateSession ==
    /\ AtCallerSlot
    /\ CountCalls("createSession") < MaxCreates
    /\ \E id \in SessionIds, input \in SessionInputs :
         CreateSession(id, input.type, input.scenario)
    /\ UNCHANGED dashboard

CallStartProcessing ==
    /\ AtCallerSlot
    /\ CountCalls("startProcessing") < MaxStarts
    /\ \E id \in SessionIds, rnd \in RandomProfiles : StartProcessing(id, rnd)
    /\ UNCHANGED dashboard

CallStopSession ==
    /\ AtCallerSlot
    /\ CountCalls("stopSession") < MaxStops
    /\ \E id \in SessionIds : StopSession(id)
    /\ UNCHANGED dashboard

\* Time passes up to the caller's next instant; no timer is due before it
Advance ==
    LET next == (now \div CallerPeriod + 1) * CallerPeriod
        heads == Heads
    IN  /\ heads = {} => (~AtCallerSlot /\ next <= CallerSlots * CallerPeriod)
        /\ \A u \in heads : Due(u) >= next
        /\ now' = next
        /\ UNCHANGED <<heap, sessions, timers, batches, pending, updates, calls,
                       reports, invocations, dashboard, recorder>>

Next ==
    \/ CallCreateSession
    \/ CallStartProcessing
    \/ CallStopSession
    \/ TimerFires
    \/ Advance

Spec == Init /\ [][Next]_vars

-----------------------------------------------------------------------------
(* The engine driven once: one createSession, one startProcessing, then its  *)
(* timers; the scenario fixes every check's final score                      *)

\* A scenario whose every check ends at score a, except the check at position j,
\* which ends at b
ScoreScenario(a, b, j, decision) ==
    [id |-> "scores", name |-> "Scores", targetDecision |-> decision,
     scorePatterns |-> PatternsOf([i \in 1..Len(DEFAULT_CHECKS) |->
         IF i = j THEN Pattern(b, b, 10) ELSE Pattern(a, a, 10)]),
     events |-> << [type |-> "info", message |-> <<"Face detected in frame">>] >>]

\* A scenario without a scorePatterns entry for the last configured check
PartialScenario ==
    [id |-> "partial", name |-> "Partial", targetDecision |-> "PASS",
     scorePatterns |-> [c \in CheckIds \ {"face-match"} |-> GenuinePass.scorePatterns[c]],
     events |-> GenuinePass.events]

PolicyScenarios ==
    { ScoreScenario(a, b, 2, d) :
        a \in {59, 60, 90, 95}, b \in {0, 29, 30, 49, 50, 59, 60, 90},
        d \in {"PASS", "RETRY", "FAIL"} }
    \cup { DEMO_SCENARIOS[i] : i \in 1..Len(DEMO_SCENARIOS) }
    \cup { PartialScenario }

PolicyProfiles ==
    { [target |-> Uniform(r), delay |-> Uniform(0), vol |-> Uniform(r)] : r \in {0, 5} }

PolicyCreate ==
    /\ Len(calls) = 0
    /\ \E type \in SessionTypes, scenario \in PolicyScenarios :
         CreateSession("s1", type, scenario)
    /\ UNCHANGED dashboard

PolicyStart ==
    /\ Len(calls) = 1
    /\ \E rnd \in PolicyProfiles : StartProcessing("s1", rnd)
    /\ UNCHANGED dashboard

NextPolicy ==
    \/ PolicyCreate
    \/ PolicyStart
    \/ TimerFires

SpecPolicy == Init /\ [][NextPolicy]_vars

\* The same runs with the timers firing fairly: a timer that is due is run by
\* the event loop
SpecPolicyFair == Init /\ [][NextPolicy]_vars /\ WF_vars(TimerFires)

-----------------------------------------------------------------------------
(* JSON.  A JSON value is a tagged record; a JSON text is the sequence of its *)
(* tokens: punctuation, the decimal digits of a number, the pieces of a       *)
(* string between two quote tokens, and a newline-with-indentation token      *)
(* before each member, item and closing bracket when the text is indented.    *)

Num(n) == [t |-> "num", n |-> n]
Str(pieces) == [t |-> "str", s |-> pieces]
Arr(items) == [t |-> "arr", items |-> items]
Obj(members) == [t |-> "obj", members |-> members]
Member(key, value) == [key |-> key, value |-> value]

DigitChars == << "0", "1", "2", "3", "4", "5", "6", "7", "8", "9" >>

RECURSIVE Digits(_)
\* The decimal digits of n >= 0
Digits(n) ==
    IF n < 10 THEN << DigitChars[n + 1] >>
    ELSE Digits(n \div 10) \o << DigitChars[(n % 10) + 1] >>

\* A newline followed by two spaces per level of nesting
Indents ==
    << "\n", "\n  ", "\n    ", "\n      ", "\n        ", "\n          ",
       "\n            " >>

NewLine(indent, depth) == IF indent = 0 THEN << >> ELSE << Indents[depth + 1] >>

RECURSIVE JSONText(_, _, _)
RECURSIVE JSONItems(_, _, _)
RECURSIVE JSONMembers(_, _, _)

JSONItems(items, indent, depth) ==
    IF Len(items) = 0 THEN << >>
    ELSE NewLine(indent, depth) \o JSONText(items[1], indent, depth)
         \o (IF Len(items) > 1 THEN << "," >> ELSE << >>)
         \o JSONItems(Tail(items), indent, depth)

JSONMembers(members, indent, depth) ==
    IF Len(members) = 0 THEN << >>
    ELSE NewLine(indent, depth)
         \o << "\"", members[1].key, "\"", IF indent = 0 THEN ":" ELSE ": " >>
         \o JSONText(members[1].value, indent, depth)
         \o (IF Len(members) > 1 THEN << "," >> ELSE << >>)
         \o JSONMembers(Tail(members), indent, depth)

JSONText(value, indent, depth) ==
    CASE value.t = "num" -> Digits(value.n)
      [] value.t = "str" -> << "\"" >> \o value.s \o << "\"" >>
      [] value.t = "arr" ->
           IF Len(value.items) = 0 THEN << "[", "]" >>
           ELSE << "[" >> \o JSONItems(value.items, indent, depth + 1)
                \o NewLine(indent, depth) \o << "]" >>
      [] value.t = "obj" ->
           IF Len(value.members) = 0 THEN << "{", "}" >>
           ELSE << "{" >> \o JSONMembers(value.members, indent, depth + 1)
                \o NewLine(indent, depth) \o << "}" >>

\* JSON.stringify(value, null, indent), for indent 0 (none given) or 2
JSONStringify(value, indent) == JSONText(value, indent, 0)

White == { Indents[d] : d \in 1..Len(Indents) }

Skip(text, i) == IF i <= Len(text) /\ text[i] \in White THEN i + 1 ELSE i

IsDigit(token) == \E d \in 1..Len(DigitChars) : DigitChars[d] = token

DigitValue(token) == (CHOOSE d \in 1..Len(DigitChars) : DigitChars[d] = token) - 1

RECURSIVE ParseNumber(_, _, _)
RECURSIVE ParseString(_, _, _)
RECURSIVE ParseValue(_, _)
RECURSIVE ParseItems(_, _, _)
RECURSIVE ParseMembers(_, _, _)

\* Each parser reads from position i and yields the value and the position after it
ParseNumber(text, i, acc) ==
    IF i <= Len(text) /\ IsDigit(text[i])
    THEN ParseNumber(text, i + 1, 10 * acc + DigitValue(text[i]))
    ELSE [value |-> Num(acc), next |-> i]

ParseString(text, i, acc) ==
    IF text[i] = "\"" THEN [value |-> Str(acc), next |-> i + 1]
    ELSE ParseString(text, i + 1, Append(acc, text[i]))

ParseItems(text, i, acc) ==
    IF text[i] = "]" THEN [value |-> Arr(acc), next |-> i + 1]
    ELSE LET item == ParseValue(text, i)
             j == Skip(text, item.next)
             k == IF text[j] = "," THEN Skip(text, j + 1) ELSE j
         IN  ParseItems(text, k, Append(acc, item.value))

ParseMembers(text, i, acc) ==
    IF text[i] = "}" THEN [value |-> Obj(acc), next |-> i + 1]
    ELSE LET member == ParseValue(text, i + 4)
             j == Skip(text, member.next)
             k == IF text[j] = "," THEN Skip(text, j + 1) ELSE j
         IN  ParseMembers(text, k, Append(acc, Member(text[i + 1], member.value)))

ParseValue(text, i) ==
    CASE text[i] = "{" -> ParseMembers(text, Skip(text, i + 1), << >>)
      [] text[i] = "[" -> ParseItems(text, Skip(text, i + 1), << >>)
      [] text[i] = "\"" -> ParseString(text, i + 1, << >>)
      [] OTHER -> ParseNumber(text, i, 0)

\* JSON.parse(text)
JSONParse(text) == ParseValue(text, 1).value

\* object[key]
Get(object, key) ==
    LET k == CHOOSE k \in 1..Len(object.members) : object.members[k].key = key
    IN  object.members[k].value

\* {...object, key: value} for a key the object does not have
Spread(object, key, value) == Obj(Append(object.members, Member(key, value)))

\* The object without its member key
Without(object, key) ==
    LET other(m) == m.key # key
    IN  Obj(SelectSeq(object.members, other))

-----------------------------------------------------------------------------
(* exportReport, generateReportHash, and the dashboard's downloadReport *)

MaxReports == 2     \* reports built in one behaviour

\* new Date(t).toISOString(): the instant, to the millisecond, as a string
ISOString(t) == << "T+" >> \o Digits(t) \o << "ms" >>

\* navigator.userAgent
UserAgent == << "Mozilla/5.0" >>

\* The report object exportReport builds from the session at time t
ReportOf(session, t) ==
    LET endTime == IF session.endTime = {} THEN 0
                   ELSE CHOOSE e \in session.endTime : TRUE
        check(c) ==
            Obj(<< Member("id", Str(<< c.id >>)),
                   Member("name", Str(<< c.name >>)),
                   Member("score", Num(c.score)),
                   Member("maxScore", Num(c.maxScore)),
                   Member("status", Str(<< c.status >>)),
                   Member("timeline", Arr([k \in 1..Len(c.timeline) |->
                       Obj(<< Member("timestamp", Num(c.timeline[k].timestamp)),
                              Member("score", Num(c.timeline[k].score)) >>)])) >>)
        event(e) ==
            Obj(<< Member("timestamp", Num(e.timestamp)),
                   Member("type", Str(<< e.type >>)),
                   Member("message", Str(e.message)) >>)
    IN  Obj(<< Member("sessionId", Str(<< session.id >>)),
               Member("timestamp", Str(ISOString(t))),
               Member("type", Str(<< session.type >>)),
               Member("scenario", Str(<< session.scenario.name >>)),
               Member("duration",
                   Num(IF endTime # 0 THEN endTime - session.startTime ELSE 0)),
               Member("checks",
                   Arr([i \in 1..Len(session.checks) |-> check(session.checks[i])])),
               Member("events",
                   Arr([k \in 1..Len(session.events) |-> event(session.events[k])])),
               Member("finalScore", Num(session.finalScore)),
               Member("decision", Str(<< session.decision >>)),
               Member("reasoning",
                   Arr([k \in 1..Len(session.reasoning) |-> Str(session.reasoning[k])])),
               Member("metadata",
                   Obj(<< Member("userAgent", Str(UserAgent)),
                          Member("timestamp", Num(t)) >>)) >>)

\* exportReport serialising without indentation
exportReportCompact(sessionId, t) ==
    JSONStringify(ReportOf(heap[sessions[sessionId]], t), 0)

\* The string exportReport(sessionId) returns at time t, for a registered id
exportReport(sessionId, t) ==
    JSONStringify(ReportOf(heap[sessions[sessionId]], t), 2)

\* The hex digest of SHA-256 over the text: a string that determines the text
\* (no two texts met here share a digest)
generateReportHash(reportString) == ToString(reportString)

\* The content of the file downloadReport offers at time t
downloadReport(sessionId, t) ==
    LET reportString == exportReport(sessionId, t)
        report == JSONParse(reportString)
        hash == generateReportHash(reportString)
        finalReport ==
            Spread(report, "integrity",
                   Obj(<< Member("hash", Str(<< hash >>)),
                          Member("algorithm", Str(<< "SHA-256" >>)) >>))
    IN  JSONStringify(finalReport, 2)

\* A call of exportReport; thrown: it threw 'Session not found'
ExportReport(sessionId) ==
    /\ reports' = Append(reports,
         IF sessionId \notin DOMAIN sessions
         THEN [op |-> "exportReport", id |-> sessionId, at |-> now,
               status |-> "none", thrown |-> TRUE, text |-> << >>]
         ELSE [op |-> "exportReport", id |-> sessionId, at |-> now,
               status |-> heap[sessions[sessionId]].status, thrown |-> FALSE,
               text |-> exportReport(sessionId, now)])
    /\ UNCHANGED <<now, heap, sessions, timers, batches, pending, updates, calls,
                   invocations, recorder>>

\* The dashboard's Download Report button: shown for a completed session
DownloadReport(sessionId) ==
    /\ sessionId \in DOMAIN sessions
    /\ heap[sessions[sessionId]].status = "completed"
    /\ reports' = Append(reports,
         [op |-> "downloadReport", id |-> sessionId, at |-> now,
          status |-> heap[sessions[sessionId]].status, thrown |-> FALSE,
          text |-> downloadReport(sessionId, now)])
    /\ UNCHANGED <<now, heap, sessions, timers, batches, pending, updates, calls,
                   invocations, recorder>>

-----------------------------------------------------------------------------
(* One session, created once and started once, and a caller who builds      *)
(* reports at its instants and whenever no timer is pending                 *)

ReportScenarios == { GenuinePass, NoisyAudio }

ReportCreate ==
    /\ Len(calls) = 0
    /\ \E scenario \in ReportScenarios : CreateSession("s1", "live", scenario)
    /\ UNCHANGED dashboard

AtReportInstant == AtCallerSlot \/ Heads = {}

CallExportReport ==
    /\ AtReportInstant
    /\ Len(reports) < MaxReports
    /\ ExportReport("s1")
    /\ UNCHANGED dashboard

CallDownloadReport ==
    /\ AtReportInstant
    /\ Len(reports) < MaxReports
    /\ DownloadReport("s1")
    /\ UNCHANGED dashboard

NextReport ==
    \/ ReportCreate
    \/ PolicyStart
    \/ TimerFires
    \/ Advance
    \/ CallExportReport
    \/ CallDownloadReport

SpecReport == Init /\ [][NextReport]_vars

-----------------------------------------------------------------------------
(* callCheck and CHECK_FUNCTIONS (src/services/checks.ts): one POST per      *)
(* invocation; the promise settles when the response has arrived and has    *)
(* been read.  Nothing in the repository calls CHECK_FUNCTIONS; here they   *)
(* are invoked for a check of the registered session.                       *)

MaxInvocations == 1     \* callCheck invocations in one behaviour

\* What may come back for the request: fetch rejects (the endpoint cannot be
\* reached), or a response arrives with response.ok, a body that is JSON or not,
\* and in the JSON a score member (absent: {})
Responses ==
    { [arrived |-> FALSE, ok |-> FALSE, json |-> FALSE, score |-> {}],
      [arrived |-> TRUE, ok |-> FALSE, json |-> TRUE, score |-> {}],
      [arrived |-> TRUE, ok |-> TRUE, json |-> FALSE, score |-> {}],
      [arrived |-> TRUE, ok |-> TRUE, json |-> TRUE, score |-> {}],
      [arrived |-> TRUE, ok |-> TRUE, json |-> TRUE, score |-> {82}],
      [arrived |-> TRUE, ok |-> TRUE, json |-> TRUE, score |-> {150}],
      [arrived |-> TRUE, ok |-> TRUE, json |-> TRUE, score |-> {0 - 5}] }

\* How the promise callCheck returned settles on the response: value is what it
\* resolves to ({}: undefined), error what it rejects with
callCheck(checkName, response) ==
    IF ~response.arrived
    THEN [state |-> "rejected", error |-> << "TypeError: Failed to fetch" >>,
          value |-> {}]
    ELSE IF ~response.ok
    THEN [state |-> "rejected", error |-> << "Check ", checkName, " failed" >>,
          value |-> {}]
    ELSE IF ~response.json
    THEN [state |-> "rejected", error |-> << "SyntaxError" >>, value |-> {}]
    ELSE [state |-> "resolved", error |-> << >>, value |-> response.score]

\* CHECK_FUNCTIONS[check.id](videoPath) for check i of session object s: the
\* request is sent
InvokeCheck(s, i) ==
    /\ invocations' = Append(invocations,
         [checkName |-> heap[s].checks[i].id, session |-> s, check |-> i,
          state |-> "pending", error |-> << >>, value |-> {}])
    /\ UNCHANGED <<now, heap, sessions, timers, batches, pending, updates, calls,
                   reports, dashboard, recorder>>

\* The request of invocation k comes back and callCheck runs to its end
FetchSettles(k, response) ==
    /\ invocations[k].state = "pending"
    /\ invocations' = [invocations EXCEPT ![k] =
         [checkName |-> @.checkName, session |-> @.session, check |-> @.check]
         @@ callCheck(@.checkName, response)]
    /\ UNCHANGED <<now, heap, sessions, timers, batches, pending, updates, calls,
                   reports, dashboard, recorder>>

-----------------------------------------------------------------------------
(* One session, created once and started once, and check invocations made   *)
(* for it; timers fire fairly, the endpoint answers when and if it likes    *)

CallInvokeCheck ==
    /\ AtReportInstant
    /\ Len(invocations) < MaxInvocations
    /\ "s1" \in DOMAIN sessions
    /\ \E i \in 1..Len(DEFAULT_CHECKS) : InvokeCheck(sessions["s1"], i)

EndpointAnswers ==
    /\ AtReportInstant
    /\ \E k \in 1..Len(invocations), response \in Responses :
         FetchSettles(k, response)

NextChecks ==
    \/ ReportCreate
    \/ PolicyStart
    \/ TimerFires
    \/ CallInvokeCheck
    \/ EndpointAnswers

SpecChecks == Init /\ [][NextChecks]_vars /\ WF_vars(TimerFires)

-----------------------------------------------------------------------------
(* Two sessions, each created once and started once at the caller's first   *)
(* instant, run side by side                                               *)

PairScenarios ==
    { ScoreScenario(40, 29, 2, d) : d \in {"PASS", "RETRY", "FAIL"} }

PairCreate ==
    /\ Len(calls) < 2
    /\ \E scenario \in PairScenarios :
         CreateSession(IF Len(calls) = 0 THEN "s1" ELSE "s2", "live", scenario)
    /\ UNCHANGED dashboard

PairStart ==
    /\ Len(calls) \in {2, 3}
    /\ AtCallerSlot
    /\ \E rnd \in RandomProfiles :
         StartProcessing(IF Len(calls) = 2 THEN "s1" ELSE "s2", rnd)
    /\ UNCHANGED dashboard

NextPair ==
    \/ PairCreate
    \/ PairStart
    \/ TimerFires

SpecPair == Init /\ [][NextPair]_vars

-----------------------------------------------------------------------------
(* One id created and started twice over: first with a scenario that has a   *)
(* pattern for every check, then, before any time has passed, with one that  *)
(* lacks an entry; the timers of the first start are not cleared.            *)

RecreateCreate ==
    /\ Len(calls) \in {0, 2}
    /\ now = 0
    /\ CreateSession("s1", "live",
                     IF Len(calls) = 0 THEN GenuinePass ELSE PartialScenario)
    /\ UNCHANGED dashboard

RecreateStart ==
    /\ Len(calls) \in {1, 3}
    /\ now = 0
    /\ \E rnd \in PolicyProfiles : StartProcessing("s1", rnd)
    /\ UNCHANGED dashboard

NextRecreate ==
    \/ RecreateCreate
    \/ RecreateStart
    \/ TimerFires

SpecRecreate == Init /\ [][NextRecreate]_vars

-----------------------------------------------------------------------------
(* The Dashboard page of session "s1" driving the global engine: the page is *)
(* visited and left, and while it is mounted its controls are used. The     *)
(* user acts at the caller's instants; timer callbacks run in between.      *)

MaxVisits == 2          \* times the page is mounted in one behaviour
MaxDownloads == 1       \* reports downloaded from the page in one behaviour

\* sessionData.type of the localStorage entry kyc-session-s1
StoredType == "live"

\* The scenarios picked in the control panel, as positions in DEMO_SCENARIOS
DashboardScenarios == {1, 2}

\* What Math.random() returns in the runs started from the page
DashboardProfiles ==
    { [target |-> Uniform(5), delay |-> Uniform(0), vol |-> Uniform(0)] }

\* useState initial values, then the effect: getSession(id), or createSession
\* with the initial scenario if the engine does not hold the id; setSession
Mount ==
    /\ ~dashboard.mounted
    /\ dashboard.instance < MaxVisits
    /\ AtCallerSlot
    /\ IF getSession("s1") # 0
       THEN UNCHANGED <<now, heap, sessions, timers, batches, pending, updates,
                        calls, reports, invocations, recorder>>
       ELSE CreateSession("s1", StoredType, DEMO_SCENARIOS[1])
    /\ dashboard' = [dashboard EXCEPT
         !.mounted = TRUE,
         !.instance = @ + 1,
         !.session = sessions'["s1"],
         !.copy = FALSE,
         !.status = heap'[sessions'["s1"]].status,
         !.isProcessing = FALSE,
         !.selectedScenario = 1]

\* navigate('/'): the page unmounts and its state is gone; the engine and its
\* timers stay
Unmount ==
    /\ dashboard.mounted
    /\ AtCallerSlot
    /\ dashboard' = [dashboard EXCEPT
         !.mounted = FALSE, !.session = 0, !.copy = FALSE, !.status = "none",
         !.isProcessing = FALSE, !.selectedScenario = 1]
    /\ UNCHANGED <<now, heap, sessions, timers, batches, pending, updates, calls,
                   reports, invocations, recorder>>

\* onScenarioChange = setSelectedScenario; the effect runs again and, the engine
\* holding the id, sets the session it holds
SelectScenario ==
    /\ dashboard.mounted
    /\ AtCallerSlot
    /\ \E k \in DashboardScenarios \ {dashboard.selectedScenario} :
         dashboard' = [dashboard EXCEPT
           !.selectedScenario = k,
           !.session = sessions["s1"],
           !.copy = FALSE,
           !.status = heap[sessions["s1"]].status]
    /\ UNCHANGED <<now, heap, sessions, timers, batches, pending, updates, calls,
                   reports, invocations, recorder>>

\* The Start Analysis button: shown unless the rendered status is 'completed',
\* disabled while isProcessing
startAnalysis ==
    /\ dashboard.mounted
    /\ AtCallerSlot
    /\ dashboard.status # "completed"
    /\ ~dashboard.isProcessing
    /\ CountCalls("startProcessing") < MaxStarts
    /\ \E rnd \in DashboardProfiles : StartProcessing("s1", rnd)
    /\ dashboard' = [dashboard EXCEPT
         !.isProcessing = TRUE,
         !.owner = Append(@, dashboard.instance),
         !.status = IF dashboard.copy THEN @
                    ELSE heap'[dashboard.session].status]

\* The Reset button, disabled while isProcessing: stopSession, then
\* createSession under the same id with the selected scenario
resetSession ==
    /\ dashboard.mounted
    /\ AtCallerSlot
    /\ ~dashboard.isProcessing
    /\ CountCalls("stopSession") < MaxStops
    /\ pending' = IF "s1" \in DOMAIN timers THEN Cleared(timers["s1"]) ELSE pending
    /\ timers' = MapDelete(timers, "s1")
    /\ heap' = Append(heap, NewSession("s1", StoredType,
                                       DEMO_SCENARIOS[dashboard.selectedScenario]))
    /\ sessions' = MapSet(sessions, "s1", Len(heap) + 1)
    /\ calls' = calls \o
         << [op |-> "stopSession", id |-> "s1", session |-> getSession("s1"),
             thrown |-> FALSE],
            [op |-> "createSession", id |-> "s1", session |-> Len(heap) + 1,
             thrown |-> FALSE] >>
    /\ dashboard' = [dashboard EXCEPT
         !.session = Len(heap) + 1, !.copy = FALSE, !.status = "initializing",
         !.isProcessing = FALSE]
    /\ UNCHANGED <<now, batches, updates, reports, invocations, recorder>>

\* The Download Report button, shown when the rendered status is 'completed'
ClickDownloadReport ==
    /\ dashboard.mounted
    /\ AtCallerSlot
    /\ dashboard.status = "completed"
    /\ Len(reports) < MaxDownloads
    /\ DownloadReport("s1")
    /\ UNCHANGED dashboard

\* A timer fires; its onUpdate is the closure of the page instance that called
\* startProcessing: setSession({...updatedSession}) and, on 'completed',
\* setIsProcessing(false). On an unmounted instance they do nothing.
DashboardTimerFires ==
    \E t \in Earliest :
        /\ RunTimer(t)
        /\ dashboard' =
             IF dashboard.mounted /\ dashboard.owner[t.batch] = dashboard.instance
             THEN LET s == batches[t.batch].session
                  IN  [dashboard EXCEPT
                         !.session = s,
                         !.copy = TRUE,
                         !.status = heap'[s].status,
                         !.isProcessing = IF heap'[s].status = "completed"
                                          THEN FALSE ELSE @]
             ELSE dashboard

NextDashboard ==
    \/ Mount
    \/ Unmount
    \/ SelectScenario
    \/ startAnalysis
    \/ resetSession
    \/ ClickDownloadReport
    \/ DashboardTimerFires
    \/ Advance

SpecDashboard == Init /\ [][NextDashboard]_vars

-----------------------------------------------------------------------------
(* recordAndUpload: one call, its one-second progress timer, the recording  *)
(* and the upload                                                           *)

MaxTicks == 10          \* firings of the progress timer in one behaviour

\* The durations recordAndUpload is called with, in ms
RecordDurations == {1000, 2500, 3000, 4000, 5000}

\* What recordAndUpload does not touch
engineAndPage ==
    <<now, heap, sessions, timers, batches, pending, updates, calls, reports,
      invocations, dashboard>>

\* Math.ceil((duration - elapsed) / 1000), and 0 if that is not positive
Remaining(duration, elapsed) ==
    IF duration - elapsed > 0 THEN (duration - elapsed + 999) \div 1000 ELSE 0

\* The call, up to its first await: with an onProgress callback it reports 15
\* and starts the interval; then recordVideo starts the recorder
recordAndUpload(duration, withProgress) ==
    /\ recorder.phase = "idle"
    /\ recorder' = [recorder EXCEPT
         !.phase = "recording",
         !.duration = duration,
         !.interval = withProgress,
         !.progress = IF withProgress THEN << 15 >> ELSE << >>]
    /\ UNCHANGED engineAndPage

\* The interval callback; while the recording runs it comes before the stop
\* timer set for duration ms
ProgressTick ==
    /\ recorder.interval
    /\ recorder.elapsed < MaxTicks * 1000
    /\ recorder.phase = "recording" => recorder.elapsed + 1000 <= recorder.duration
    /\ recorder' = [recorder EXCEPT
         !.elapsed = @ + 1000,
         !.clock = Max2(@, recorder.elapsed + 1000),
         !.progress = Append(@, Remaining(recorder.duration,
                                          recorder.elapsed + 1000))]
    /\ UNCHANGED engineAndPage

\* The stop timer of recordVideo fires, onstop resolves the blob; recordAndUpload
\* goes on: clearInterval, then the upload starts
RecordingEnds ==
    /\ recorder.phase = "recording"
    /\ recorder.interval => recorder.elapsed + 1000 > recorder.duration
    /\ recorder' = [recorder EXCEPT
         !.phase = "uploading",
         !.clock = recorder.duration,
         !.interval = FALSE]
    /\ UNCHANGED engineAndPage

\* mediaRecorder.onerror rejects the promise of recordVideo; recordAndUpload
\* goes to its catch block and returns the failure
RecordingFails ==
    /\ recorder.phase = "recording"
    /\ recorder' = [recorder EXCEPT
         !.phase = "settled",
         !.result = "MediaRecorder error"]
    /\ UNCHANGED engineAndPage

\* uploadVideoToBackend returns its result, a success or a failure, and
\* recordAndUpload returns it
UploadSettles ==
    /\ recorder.phase = "uploading"
    /\ \E result \in {"success", "Upload failed: Internal Server Error",
                      "Failed to fetch"} :
         recorder' = [recorder EXCEPT !.phase = "settled", !.result = result]
    /\ UNCHANGED engineAndPage

CallRecordAndUpload ==
    /\ recorder.phase = "idle"
    /\ \E duration \in RecordDurations, withProgress \in BOOLEAN :
         recordAndUpload(duration, withProgress)

NextRecorder ==
    \/ CallRecordAndUpload
    \/ ProgressTick
    \/ RecordingEnds
    \/ RecordingFails
    \/ UploadSettles

SpecRecorder == Init /\ [][NextRecorder]_vars

-----------------------------------------------------------------------------
(* Notions the properties use *)

Terminal(check) == check.status \in {"completed", "failed"}

AllTerminal(session) ==
    \A i \in 1..Len(session.checks) : Terminal(session.checks[i])

\* The sessions the registry holds
Registered == { sessions[id] : id \in DOMAIN sessions }

\* How many "KYC verification completed" events the session's log holds
CompletionEvents(session) ==
    Cardinality({ k \in 1..Len(session.events) :
        session.events[k].message[1] = "KYC verification completed: " })

\* The step appends a call of op on id to the history
IsCall(op, id) ==
    /\ Len(calls') = Len(calls) + 1
    /\ calls'[Len(calls')].op = op
    /\ calls'[Len(calls')].id = id

\* The session is as createSession left it
Untouched(session) ==
    /\ session.status = "initializing"
    /\ session.checks = InitialChecks
    /\ Len(session.events) = 1
    /\ session.finalScore = 0
    /\ session.decision = "PASS"
    /\ session.reasoning = << >>
    /\ session.endTime = {}

\* startProcessing was called on session object s
Started(s) ==
    \E k \in 1..Len(calls) : calls[k].op = "startProcessing" /\ calls[k].session = s

\* Session object s was made by a reset: stopSession(id), then createSession(id)
MadeByReset(s) ==
    \E k \in 2..Len(calls) :
        /\ calls[k].op = "createSession" /\ calls[k].session = s
        /\ calls[k - 1].op = "stopSession" /\ calls[k - 1].id = calls[k].id

\* stopSession(id) was called and startProcessing(id) has not been called since
Stopped(id) ==
    \E k \in 1..Len(calls) :
        /\ calls[k].op = "stopSession" /\ calls[k].id = id
        /\ \A j \in (k + 1)..Len(calls) :
             ~(calls[j].op = "startProcessing" /\ calls[j].id = id)

Scores(session) == [i \in 1..Len(session.checks) |-> session.checks[i].score]

-----------------------------------------------------------------------------
(* Properties *)

\* C1: a registered session whose status is 'completed' has every check in a
\* terminal status (completed or failed), and a registered session all of whose
\* checks are terminal is not in 'processing'.
C1_CompletedIffChecksTerminal ==
    \A s \in Registered :
        /\ heap[s].status = "completed" => AllTerminal(heap[s])
        /\ AllTerminal(heap[s]) => heap[s].status # "processing"

\* C2: startProcessing on a session whose status is already 'processing' or
\* 'completed' changes nothing: no field of any session, no timer, no dispatch.
C2_StartOnStartedIsNoOp ==
    [][ \A id \in SessionIds :
          ( /\ IsCall("startProcessing", id)
            /\ id \in DOMAIN sessions
            /\ heap[sessions[id]].status \in {"processing", "completed"} )
          => UNCHANGED <<heap, sessions, timers, batches, pending, updates>> ]_vars

\* C3: completeSession runs at most once per session: the log of no session holds
\* more than one completion event.
C3_CompletesOnce ==
    \A s \in 1..Len(heap) : CompletionEvents(heap[s]) <= 1

\* C4: a session made by a reset (stopSession, then createSession with the same
\* id) changes only through its own startProcessing: until it is started it is as
\* createSession left it.
C4_ResetSessionUntouched ==
    \A s \in 1..Len(heap) :
        (MadeByReset(s) /\ ~Started(s)) => Untouched(heap[s])

\* C5: after stopSession(id), and until the next startProcessing(id), no timer
\* scheduled for that session id is still to fire.
C5_StopCancelsEveryTimer ==
    \A id \in SessionIds :
        Stopped(id) => { t \in Pending : batches[t.batch].sessionId = id } = {}

\* C6: the checks of every session carry exactly the seven configured check ids,
\* each once.
C6_CheckIdsAreConfigured ==
    \A s \in 1..Len(heap) :
        /\ Len(heap[s].checks) = 7
        /\ Cardinality(CheckIds) = 7
        /\ { heap[s].checks[i].id : i \in 1..Len(heap[s].checks) } = CheckIds

\* C6 witness: a session was run to completion and another was created under the
\* same id.
C6_Witness ==
    /\ Len(heap) = 2
    /\ heap[1].status = "completed"
    /\ heap[2].status = "processing"

\* C7: the finalScore of a completed session is the mean of its seven check
\* scores rounded to the nearest integer, halves up:
\* finalScore - 1/2 <= sum / 7 < finalScore + 1/2.
C7_FinalScoreIsRoundedMean ==
    \A s \in 1..Len(heap) :
        heap[s].status = "completed" =>
            LET sum == SumScores(heap[s].checks)
                final == heap[s].finalScore
            IN  /\ 14 * final - 7 <= 2 * sum
                /\ 2 * sum < 14 * final + 7

\* C7 witness: one check ended at 0, the other six at 95, and the final score is 81.
C7_Witness ==
    /\ Len(heap) = 1
    /\ heap[1].status = "completed"
    /\ Scores(heap[1]) = << 95, 0, 95, 95, 95, 95, 95 >>
    /\ heap[1].finalScore = 81

C9_FailNamesChecksBelowSixty ==
    \A s \in 1..Len(heap) :
        (heap[s].status = "completed" /\ heap[s].decision = "FAIL") =>
            LET below(c) == c.score < 60
                low == SelectSeq(heap[s].checks, below)
            IN  Len(low) > 0 =>
                  \E k \in 1..Len(heap[s].reasoning) :
                      /\ Len(heap[s].reasoning[k]) > 1
                      /\ Tail(heap[s].reasoning[k]) = Join(Names(low), ", ")

\* C10: the first reasoning string of a completed session states the final score.
C10_FirstReasonStatesScore ==
    \A s \in 1..Len(heap) :
        heap[s].status = "completed" =>
            /\ Len(heap[s].reasoning) >= 1
            /\ \E k \in 1..Len(heap[s].reasoning[1]) :
                 heap[s].reasoning[1][k] = ToString(heap[s].finalScore)

\* The reasoning strings of the session that list check names: a heading followed
\* by names
Listings(session) ==
    { k \in 1..Len(session.reasoning) : Len(session.reasoning[k]) > 1 }

\* C11: the reasoning of a completed PASS session has an 'excellent' entry that
\* lists exactly the checks scoring 90 or more, by display name, comma-joined, in
\* the configured order; with all seven checks at 90 it lists all seven.
C11_PassListsExcellentChecks ==
    \A s \in 1..Len(heap) :
        (heap[s].status = "completed" /\ heap[s].decision = "PASS") =>
            LET excellent(c) == c.score >= 90
                best == SelectSeq(heap[s].checks, excellent)
            IN  Len(best) > 0 =>
                  \E k \in Listings(heap[s]) :
                      /\ heap[s].reasoning[k][1] = "Excellent scores in: "
                      /\ Tail(heap[s].reasoning[k]) = Join(Names(best), ", ")

\* C12: in the reasoning of a completed FAIL session the checks below 60 are
\* listed as failing and, in a separate entry after it, exactly the checks below
\* 30 are flagged critical; when no check is below 30 (every check at 59, say)
\* there is no critical entry and all checks below 60 are listed as failing.
C12_FailFlagsCriticalBelowThirty ==
    \A s \in 1..Len(heap) :
        (heap[s].status = "completed" /\ heap[s].decision = "FAIL") =>
            LET below60(c) == c.score < 60
                below30(c) == c.score < 30
                failing == SelectSeq(heap[s].checks, below60)
                critical == SelectSeq(heap[s].checks, below30)
                reasoning == heap[s].reasoning
            IN  /\ Len(failing) > 0 =>
                     \E k \in Listings(heap[s]) :
                         Tail(reasoning[k]) = Join(Names(failing), ", ")
                /\ Len(critical) > 0 =>
                     \E k, c \in Listings(heap[s]) :
                         /\ k < c
                         /\ Tail(reasoning[c]) = Join(Names(critical), ", ")
                /\ Len(critical) = 0 => Cardinality(Listings(heap[s])) <= 1

C14_ReportOnlyFromCompleted ==
    \A k \in 1..Len(reports) :
        reports[k].status # "completed" =>
            reports[k].thrown /\ reports[k].text = << >>

\* C15: two reports built by exportReport from the same completed session, at
\* whatever moments, have the same hash.
C15_SameSessionSameHash ==
    \A j, k \in 1..Len(reports) :
        ( /\ reports[j].op = "exportReport" /\ reports[k].op = "exportReport"
          /\ reports[j].id = reports[k].id
          /\ reports[j].status = "completed" /\ reports[k].status = "completed" )
        => generateReportHash(reports[j].text) = generateReportHash(reports[k].text)

\* The hash a downloaded file carries in its integrity block
EmbeddedHash(content) == Get(Get(JSONParse(content), "integrity"), "hash").s[1]

\* C16 as stated: hashing the content of a downloaded file gives the hash in its
\* integrity block.
C16_HashIsOverDownloadedContent ==
    \A k \in 1..Len(reports) :
        reports[k].op = "downloadReport" =>
            generateReportHash(reports[k].text) = EmbeddedHash(reports[k].text)

\* C16 amended: parsing the content of a downloaded file, removing the integrity
\* member, serialising the rest with two-space indentation and hashing that gives
\* the hash in the integrity block; hashing the content itself does not.
C16_HashIsOverReportWithoutIntegrity ==
    \A k \in 1..Len(reports) :
        reports[k].op = "downloadReport" =>
            LET content == reports[k].text
                rest == Without(JSONParse(content), "integrity")
            IN  /\ generateReportHash(JSONStringify(rest, 2)) = EmbeddedHash(content)
                /\ generateReportHash(content) # EmbeddedHash(content)

\* C16 witness: a report of a completed session was downloaded, with an
\* integrity block naming SHA-256 and all seven checks in it.
C16_Witness ==
    \E k \in 1..Len(reports) :
        /\ reports[k].op = "downloadReport"
        /\ Get(Get(JSONParse(reports[k].text), "integrity"), "algorithm").s
               = << "SHA-256" >>
        /\ Len(Get(JSONParse(reports[k].text), "checks").items) = 7

\* stopSession(id) was called and createSession(id) has not been called since
Discarded(id) ==
    \E k \in 1..Len(calls) :
        /\ calls[k].op = "stopSession" /\ calls[k].id = id
        /\ \A j \in (k + 1)..Len(calls) :
             ~(calls[j].op = "createSession" /\ calls[j].id = id)

\* C17: after stopSession(id), and until the id is created again, getSession(id)
\* reports not-found.
C17_StoppedSessionNotFound ==
    \A id \in SessionIds : Discarded(id) => getSession(id) = 0

\* The step runs a timer callback that startProcessing set for session object s
CallbackOf(s) ==
    \E b \in 1..Len(batches) :
        updates'[b] # updates[b] /\ batches[b].session = s

\* The step is startProcessing on the id under which session object s is registered
StartOf(s) ==
    \E id \in SessionIds :
        IsCall("startProcessing", id) /\ getSession(id) = s

\* C18: session objects created under the same id are independent: a step
\* changes a session object only if it is startProcessing on that object or a
\* timer callback set for that object; what is done for one object leaves every
\* other object as it is.
C18_SessionsAreIndependent ==
    [][ \A s \in 1..Len(heap) :
          heap'[s] # heap[s] => (CallbackOf(s) \/ StartOf(s)) ]_vars

\* C19: once a check is completed or failed, its status, score and timeline do
\* not change in any later step.
C19_TerminalCheckIsFrozen ==
    [][ \A s \in 1..Len(heap) : \A i \in 1..Len(heap[s].checks) :
          Terminal(heap[s].checks[i]) =>
              /\ heap'[s].checks[i].status = heap[s].checks[i].status
              /\ heap'[s].checks[i].score = heap[s].checks[i].score
              /\ heap'[s].checks[i].timeline = heap[s].checks[i].timeline ]_vars

\* C20: a session is created 'initializing' with every check pending and nothing
\* scheduled; afterwards its status changes only from 'initializing' to
\* 'processing', by startProcessing, and from 'processing' to 'completed'.
C20_StatusMovesForward ==
    [][ \A s \in 1..Len(heap') :
          IF s > Len(heap)
          THEN /\ heap'[s].status = "initializing"
               /\ \A i \in 1..Len(heap'[s].checks) :
                      heap'[s].checks[i].status = "pending"
               /\ batches' = batches /\ pending' = pending
          ELSE \/ heap'[s].status = heap[s].status
               \/ /\ heap[s].status = "initializing"
                  /\ heap'[s].status = "processing"
                  /\ StartOf(s)
               \/ /\ heap[s].status = "processing"
                  /\ heap'[s].status = "completed" ]_vars

\* C21: when a check invocation has failed (it rejected, or it came back with a
\* score outside 0..100), the check it was made for is 'failed' with score 0, the
\* session's log holds an error or warning event naming the check, and the
\* session is not 'failed'.
C21_FailedInvocationFailsCheck ==
    \A k \in 1..Len(invocations) :
        LET inv == invocations[k]
            session == heap[inv.session]
            check == session.checks[inv.check]
        IN  ( \/ inv.state = "rejected"
              \/ inv.state = "resolved" /\ ~(inv.value \subseteq 0..100) )
            => /\ check.status = "failed"
               /\ check.score = 0
               /\ \E e \in 1..Len(session.events) :
                      /\ session.events[e].type \in {"error", "warning"}
                      /\ \E p \in 1..Len(session.events[e].message) :
                             session.events[e].message[p] \in {check.id, check.name}
               /\ session.status # "failed"

\* C22: every check invocation terminates: an invocation that has been made is
\* eventually resolved or rejected.
C22_InvocationTerminates ==
    \A k \in 1..MaxInvocations :
        (Len(invocations) >= k)
            ~> (Len(invocations) >= k /\ invocations[k].state # "pending")

\* C23: a check invocation that resolves, resolves to a score in 0..100.
C23_ResolvedScoreInRange ==
    \A k \in 1..Len(invocations) :
        invocations[k].state = "resolved" =>
            /\ invocations[k].value # {}
            /\ invocations[k].value \subseteq 0..100

\* C24: in every step in which a check becomes 'completed', an event naming that
\* check is appended to the session's log.
C24_CompletedCheckLogsEvent ==
    [][ \A s \in 1..Len(heap) : \A i \in 1..Len(heap[s].checks) :
          ( /\ heap[s].checks[i].status # "completed"
            /\ heap'[s].checks[i].status = "completed" )
          => \E e \in (Len(heap[s].events) + 1)..Len(heap'[s].events) :
                 \E p \in 1..Len(heap'[s].events[e].message) :
                     heap'[s].events[e].message[p]
                         \in {heap[s].checks[i].id, heap[s].checks[i].name} ]_vars

\* C25: the event log of every session is append-only: in every step the log
\* before the step is a prefix of the log after it.
C25_EventLogAppendOnly ==
    [][ \A s \in 1..Len(heap) :
          /\ Len(heap'[s].events) >= Len(heap[s].events)
          /\ SubSeq(heap'[s].events, 1, Len(heap[s].events)) = heap[s].events ]_vars

\* C25 witness: a log that grew by the creation event, four scenario events and
\* the completion event, in this order.
C25_Witness ==
    \E s \in 1..Len(heap) :
        /\ Len(heap[s].events) = 6
        /\ heap[s].events[1].message[2] = " KYC session initialized"
        /\ heap[s].events[5].message = heap[s].scenario.events[4].message
        /\ heap[s].events[6].message[1] = "KYC verification completed: "

\* C26: every check's score and every sample of its timeline is in 0..100 = 
\* 0..maxScore, and every session's finalScore is in 0..100.
C26_ScoresInRange ==
    \A s \in 1..Len(heap) :
        /\ heap[s].finalScore \in 0..100
        /\ \A i \in 1..Len(heap[s].checks) :
               LET check == heap[s].checks[i]
               IN  /\ check.maxScore = 100
                   /\ check.score \in 0..check.maxScore
                   /\ \A k \in 1..Len(check.timeline) :
                          check.timeline[k].score \in 0..check.maxScore

\* C26 witness: a completed session one of whose checks had its first sample
\* clamped to 0 (the volatility term was negative) and ended at 85.
C26_Witness ==
    \E s \in 1..Len(heap) :
        /\ heap[s].status = "completed"
        /\ heap[s].finalScore > 0
        /\ Len(heap[s].checks[1].timeline) > steps
        /\ heap[s].checks[1].timeline[1].score = 0
        /\ heap[s].checks[1].timeline[2].score > 0
        /\ heap[s].checks[1].score = 85

C28_UnknownIdIsRejected ==
    [][ \A id \in SessionIds :
          (IsCall("startProcessing", id) /\ id \notin DOMAIN sessions) =>
              /\ calls'[Len(calls')].thrown
              /\ UNCHANGED <<heap, sessions, timers, batches, pending>> ]_vars

\* The step is an engine operation on id, or a timer callback set by a
\* startProcessing on id
StepOf(id) ==
    \/ \E op \in {"createSession", "startProcessing", "stopSession"} : IsCall(op, id)
    \/ \E b \in 1..Len(batches) :
           updates'[b] # updates[b] /\ batches[b].sessionId = id

\* C29: sessions with different ids are independent: a step changes the checks,
\* events, status, finalScore, decision or reasoning of a session only if it is
\* an operation on that session's id or a timer callback of that id; no step of
\* one id changes the session of another.
C29_DifferentIdsAreIndependent ==
    [][ \A u \in 1..Len(heap) :
          heap'[u] # heap[u] =>
              /\ StepOf(heap[u].id)
              /\ \A v \in 1..Len(heap) :
                     heap[v].id # heap[u].id => heap'[v] = heap[v] ]_vars

\* C29 witness: two sessions with different ids have both completed, the
\* second having received samples before the first completed.
C29_Witness ==
    /\ Len(heap) = 2
    /\ heap[1].id # heap[2].id
    /\ heap[1].status = "completed"
    /\ heap[2].status = "completed"
    /\ heap[2].checks[1].timeline[1].timestamp
         < heap[1].checks[7].timeline[steps + 1].timestamp

\* The scenario of the session has a scorePatterns entry for every configured check
FullyPatterned(session) ==
    \A i \in 1..Len(session.checks) :
        session.checks[i].id \in DOMAIN session.scenario.scorePatterns

\* C30: once startProcessing has been called (once) on a session whose scenario
\* has a pattern for every configured check, and the session is neither stopped
\* nor re-created, then with the timers firing fairly every check eventually
\* reaches 'completed' and the session eventually reaches 'completed'.
C30_StartedSessionCompletes ==
    (/\ Len(batches) = 1
     /\ Len(heap) = 1
     /\ FullyPatterned(heap[1]))
        ~> (/\ Len(heap) = 1
            /\ heap[1].status = "completed"
            /\ \A i \in 1..Len(heap[1].checks) :
                   heap[1].checks[i].status = "completed")

\* C30 witness: a started session with a pattern for every check has completed,
\* every check having run its twenty-one steps.
C30_Witness ==
    /\ Len(batches) = 1
    /\ Len(heap) = 1
    /\ FullyPatterned(heap[1])
    /\ heap[1].status = "completed"
    /\ \A i \in 1..Len(heap[1].checks) :
           /\ heap[1].checks[i].status = "completed"
           /\ Len(heap[1].checks[i].timeline) = steps + 1

\* The closing sentences of the reasoning generateReasoning writes for a decision
ClosingSentences(decision) ==
    CASE decision = "PASS" ->
           << << "Live person detected with natural biometric patterns" >>,
              << "No signs of manipulation or fraud detected" >> >>
      [] decision = "RETRY" ->
           << << "Please retry with better lighting and audio conditions" >>,
              << "Ensure stable internet connection and clear video quality" >> >>
      [] decision = "FAIL" ->
           << << "Potential fraud or manipulation detected" >>,
              << "Identity verification requirements not met" >> >>

\* C33: at completion the decision of the session is its scenario's
\* targetDecision whatever the check scores and the finalScore are, and the
\* reasoning is the branch of that decision: it ends with the two closing
\* sentences of the decision, and for PASS it is the three fixed sentences.
C33_DecisionAndReasoningFollowTarget ==
    \A s \in 1..Len(heap) :
        heap[s].status = "completed" =>
            LET target == heap[s].scenario.targetDecision
                r == heap[s].reasoning
                n == Len(r)
            IN  /\ heap[s].decision = target
                /\ n >= 2
                /\ << r[n - 1], r[n] >> = ClosingSentences(target)
                /\ target = "PASS" =>
                       /\ n = 3
                       /\ r[1] = << "All security checks passed with high confidence scores" >>

\* C33 witness: a completed session whose final score is at least 90 and whose
\* decision is RETRY, with the two RETRY sentences as its reasoning.
C33_Witness ==
    /\ Len(heap) = 1
    /\ heap[1].status = "completed"
    /\ heap[1].finalScore >= 90
    /\ heap[1].scenario.targetDecision = "RETRY"
    /\ heap[1].decision = "RETRY"
    /\ Len(heap[1].reasoning) = 2

\* The session was created with one of the DEMO_SCENARIOS
IsDemo(session) ==
    \E k \in 1..Len(DEMO_SCENARIOS) : session.scenario = DEMO_SCENARIOS[k]

\* The last entry of the event log is the completion event, and the creation
\* event and every scenario event come before it
CompletionEventIsLast(session) ==
    LET n == Len(session.events)
    IN  /\ n = Len(session.scenario.events) + 2
        /\ session.events[n].message
             = << "KYC verification completed: ", session.decision >>
        /\ \A k \in 1..Len(session.scenario.events) :
               session.events[k + 1].message = session.scenario.events[k].message

\* C32: after a single startProcessing on a session created with one of the
\* DEMO_SCENARIOS, once the status is 'completed' no step changes the session
\* (no score, timeline or event is written), and the completion event is the
\* last entry of the event log, every scenario event having come before it.
C32_NothingAfterCompletion ==
    /\ [](\A s \in 1..Len(heap) :
            (heap[s].status = "completed" /\ IsDemo(heap[s])) =>
                /\ CompletionEventIsLast(heap[s])
                /\ \A b \in 1..Len(batches) :
                       batches[b].session = s => HeadsOf(b) = {})
    /\ [][ \A s \in 1..Len(heap) :
             (heap[s].status = "completed" /\ IsDemo(heap[s])) =>
                 heap'[s] = heap[s] ]_vars

\* C32 witness: a session of the fourth demo scenario has completed with its
\* creation event, its scenario events and the completion event in the log.
C32_Witness ==
    /\ Len(heap) = 1
    /\ Len(batches) = 1
    /\ heap[1].scenario = DEMO_SCENARIOS[4]
    /\ heap[1].status = "completed"
    /\ Len(heap[1].scenario.events) >= 3
    /\ CompletionEventIsLast(heap[1])

\* C34: once startProcessing has been called on a session, a configured check
\* the session's scenario has no scorePatterns entry for stays 'pending' with
\* score 0 and an empty timeline, and the session never reaches 'completed'.
C34_UnpatternedCheckBlocksCompletion ==
    \A s \in 1..Len(heap) :
        \A i \in 1..Len(heap[s].checks) :
            (/\ \E b \in 1..Len(batches) : batches[b].session = s
             /\ heap[s].checks[i].id \notin DOMAIN heap[s].scenario.scorePatterns) =>
                /\ heap[s].checks[i].status = "pending"
                /\ heap[s].checks[i].score = 0
                /\ heap[s].checks[i].timeline = << >>
                /\ heap[s].status # "completed"

\* stopSession has been called on the id of session object s while s was
\* registered under it, and startProcessing has not been called on s since
StoppedObject(s) ==
    \E k \in 1..Len(calls) :
        /\ calls[k].op = "stopSession" /\ calls[k].session = s
        /\ \A j \in (k + 1)..Len(calls) :
             ~(calls[j].op = "startProcessing" /\ calls[j].session = s)

\* C35: stopSession changes nothing except the timers: the session objects and
\* the registry are as before the call; and a session stopped while
\* 'processing' is not changed by any later step (it keeps its status and its
\* checks) for as long as it is not started again.
C35_StopChangesOnlyTimers ==
    [][ /\ \A id \in SessionIds :
             IsCall("stopSession", id) => UNCHANGED <<heap, sessions>>
        /\ \A s \in 1..Len(heap) :
             (StoppedObject(s) /\ heap[s].status = "processing"
                  /\ ~IsCall("startProcessing", heap[s].id)) =>
                 heap'[s] = heap[s] ]_vars

\* C36: as long as a session has not completed (its status has never become
\* 'completed': no completion has been logged), its result fields have their
\* creation-time values: finalScore 0, reasoning empty, endTime absent and
\* decision 'PASS', whatever the scenario.
C36_ResultsUnsetUntilCompleted ==
    \A s \in 1..Len(heap) :
        CompletionEvents(heap[s]) = 0 =>
            /\ heap[s].status # "completed"
            /\ heap[s].finalScore = 0
            /\ heap[s].reasoning = << >>
            /\ heap[s].endTime = {}
            /\ heap[s].decision = "PASS"

\* C36 witness: a session of a FAIL scenario is still processing, with its
\* first check completed at a positive score, and its result fields unset.
C36_Witness ==
    /\ Len(heap) >= 1
    /\ heap[1].scenario.targetDecision = "FAIL"
    /\ heap[1].status = "processing"
    /\ heap[1].checks[1].status = "completed"
    /\ heap[1].checks[1].score > 0
    /\ CompletionEvents(heap[1]) = 0
    /\ heap[1].decision = "PASS"
    /\ heap[1].finalScore = 0

\* C31: with the Dashboard's controls alone (Start Analysis, Reset, Download
\* Report, scenario change, leaving and returning to the page),
\* startProcessing is never invoked for a session whose engine status is
\* already 'processing'.
C31_DashboardNeverStartsTwice ==
    [][ \A id \in SessionIds :
          (IsCall("startProcessing", id) /\ id \in DOMAIN sessions) =>
              heap[sessions[id]].status # "processing" ]_vars

\* C37: once the promise recordAndUpload returns has settled, whether recording
\* and upload succeeded or recording failed, onProgress is not called again.
C37_NoProgressAfterSettled ==
    [][ recorder.phase = "settled" =>
            recorder'.progress = recorder.progress ]_vars

====
